---- MODULE Spec2Model ----
(***************************************************************************)
(* Model of libsphinxql (src/src/sphinxql.cc, include/sphinxql/sphinxql.h): *)
(* Query (a Connection with its batch), AsyncQuery (the pool and the       *)
(* active set of one asynchronous round), Response and Result.             *)
(*                                                                         *)
(* The MySQL client library is the transport.  It is modelled by what the  *)
(* code reads from it: the return value of each call, the error number of  *)
(* the handle, and the reply stream of result sets with its cursor.        *)
(***************************************************************************)
EXTENDS Integers, Sequences, FiniteSets, TLC

(***************************************************************************)
(* Bounds of the model.                                                    *)
(***************************************************************************)
\* Number of Connection objects alive at the same time.
MaxConn == 2
\* Number of entries one Connection's batch takes.
MaxBatch == 2
\* Number of Query objects the caller holds at the same time.
MaxOwned == 1

Conns == 1..MaxConn
\* Number of 16-bit limbs an exact value takes; a text of 20 digits fits.
MaxLimbs == 5
\* Largest column index the caller asks a Row for.
MaxIndex == 2
\* Number of getNextRow calls the caller makes after the call that found
\* the Result exhausted.
MaxCallsPastEnd == 2

(***************************************************************************)
(* Error numbers of the client library named by Query::PrivateData::execute.*)
(***************************************************************************)
CR_SERVER_GONE_ERROR == 2006
CR_SERVER_LOST == 2013
\* Error number of another transport failure (the socket cannot be used).
OtherErrnos == {2002}
MysqlErrnos == {CR_SERVER_GONE_ERROR, CR_SERVER_LOST} \cup OtherErrnos
\* mysql_query() reports a failure by a non-zero flag (1, or -1 in
\* MariaDB Connector/C); the error number is what mysql_errno() returns.
MysqlFailureReturns == {1, -1}

(***************************************************************************)
(* Inputs.                                                                 *)
(***************************************************************************)
\* Statement texts the caller registers.
Stmts == {"A; ", "B; "}
\* The fixed diagnostics-request statement of getQueryString.
ShowMeta == "SHOW META; "
\* A column of a row is a text or the database NULL (a null pointer).
NullPtr == "nullptr"

\* The result set the daemon returns for a data statement: columns and rows.
DataReply(stmt) ==
    IF stmt = "A; " THEN [fields |-> 2, rows |-> << <<"total", "2">> >>]
    ELSE [fields |-> 1, rows |-> <<>>]
\* The result set the daemon returns for the diagnostics-request statement
\* that follows the data statement stmt.
MetaReply(stmt) ==
    IF stmt = "A; "
    THEN [fields |-> 2, rows |-> << <<"total", "2">>, <<"total_found", "3">> >>]
    ELSE [fields |-> 2, rows |-> << <<"", "9">>, <<NullPtr, "7">>, <<"total", "2">>,
                                    <<"total", "5">>, <<"time", NullPtr>> >>]
\* Names asked of getMeta.
MetaKeys == {"total", "total_found", "time", "", "unknown"}

(***************************************************************************)
(* Errors: the exception type and its message.                             *)
(***************************************************************************)
NoError == [type |-> "none", what |-> ""]
Exception(msg) == [type |-> "Exception", what |-> msg]
TimeoutException(msg) == [type |-> "TimeoutException", what |-> msg]
out_of_range(msg) == [type |-> "out_of_range", what |-> msg]

VARIABLES
    data,          \* Query::PrivateData of every Connection
    owned,         \* the Connections the caller holds as Query objects
    connections,   \* AsyncQuery::connections, the idle pool (a queue)
    queries,       \* AsyncQuery::queries, the active set of the round
    response,      \* the Response the last execute()/launch() returned
    returned,      \* what the last Response::next() returned
    delivered,     \* the Results next() has returned from that Response
    raised,        \* the exception the last operation raised
    lastOp,        \* the last operation and the Connection it was called on
    created,       \* the Connections the last operation constructed
    calls,         \* the transport calls the last operation issued, in order
                   \* (connect, query, send, read, close)
    registered,    \* the entries of the last dispatch, in registration order
    transport      \* what the transport did in the last dispatch

\* What the caller does with one Result: the rows it fetches and the Row it
\* reads them with.
VARIABLES
    readResult,    \* the Result the caller reads
    readRow,       \* the caller's Row
    dest,          \* the caller's std::string that operator>> fills
    hasRow,        \* what the last getNextRow() returned
    got,           \* what the last operator[] or getValue() returned
    conv           \* a call of convertResult to an integer type: its
                   \* arguments and the value returned

reading == <<readResult, readRow, dest, hasRow, got, conv>>

vars == <<data, owned, connections, queries, response, returned, delivered, raised,
          lastOp, created, calls, registered, transport,
          readResult, readRow, dest, hasRow, got, conv>>

(***************************************************************************)
(* Query::PrivateData                                                      *)
(***************************************************************************)
\* PrivateData(): not connected, first result pending, no entries.  Of the
\* handle con the model keeps the reply stream: `current` is the result set
\* under the cursor that mysql_store_result would take (none: <<>>), `more`
\* are the result sets after it.
NewPrivateData ==
    [connected |-> FALSE, firstToRetrieve |-> TRUE, queries |-> <<>>,
     current |-> <<>>, more |-> <<>>]

isConnected(d) == d.connected

empty(d) == d.queries = <<>>

\* Mutant of clear: the Connection is set back to its constructed state,
\* which also forgets that it is connected and what its handle holds.
clearReconstructs(d) == NewPrivateData

\* Mutant of clear: the batch is emptied and the first-result-pending flag
\* is left as the last retrieval set it.
clearKeepsFlag(d) == [d EXCEPT !.queries = <<>>]

clear(d) == [d EXCEPT !.firstToRetrieve = TRUE, !.queries = <<>>]

addQuery(d, query, addMeta) ==
    [d EXCEPT !.queries = Append(@, [text |-> query, meta |-> addMeta])]

\* Mutant of getQueryString: the diagnostics requests are appended after
\* the last statement instead of after their own.
getQueryStringMetaAtEnd(qs) ==
    [i \in 1..Len(qs) |-> qs[i].text]
    \o [i \in 1..Cardinality({j \in 1..Len(qs) : qs[j].meta}) |-> ShowMeta]

\* The payload: the statements of the concatenated text, in order.
RECURSIVE getQueryString(_)
getQueryString(qs) ==
    IF qs = <<>> THEN <<>>
    ELSE (IF Head(qs).meta THEN <<Head(qs).text, ShowMeta>> ELSE <<Head(qs).text>>)
         \o getQueryString(Tail(qs))

(***************************************************************************)
(* The daemon.  It answers a payload with one result set per statement, in *)
(* payload order; `at` is the place of the result set in the reply.        *)
(***************************************************************************)
ServerReply(payload) ==
    [i \in 1..Len(payload) |->
        LET set == IF payload[i] # ShowMeta THEN DataReply(payload[i])
                   ELSE IF i > 1 THEN MetaReply(payload[i - 1])
                   ELSE MetaReply(ShowMeta)
        IN  [stmt |-> payload[i], at |-> i, fields |-> set.fields, rows |-> set.rows]]

\* A reply that ends after its first `cut` result sets (a statement of the
\* payload failed in the daemon, or returned no result set).
Truncate(reply, cut) == SubSeq(reply, 1, IF cut < Len(reply) THEN cut ELSE Len(reply))

(***************************************************************************)
(* Row                                                                     *)
(***************************************************************************)
\* Row::Row(): not bound to a Result.
NewRow == [origin |-> FALSE, data |-> <<>>, fields |-> 0, fieldIter |-> 0]

checkBounds(row, index) ==
    IF index >= row.fields THEN out_of_range("Row column out of range") ELSE NoError

\* Mutant of convertResult<std::string>: a NULL column yields the empty
\* text instead of the default value.
convertResultNullIsEmpty(d, defaultValue) ==
    IF d = NullPtr THEN "" ELSE d

\* Row::convertResult<std::string>
convertResultString(d, defaultValue) ==
    IF d = NullPtr THEN defaultValue ELSE d

\* Row::operator>>(std::string &): the row and the destination after the read.
ReadString(row, value) ==
    LET e == checkBounds(row, row.fieldIter) IN
    IF e # NoError THEN [err |-> e, row |-> row, value |-> value]
    ELSE [err |-> NoError,
          row |-> [row EXCEPT !.fieldIter = @ + 1],
          value |-> convertResultString(row.data[row.fieldIter + 1], value)]

(***************************************************************************)
(* Result and MetaReader                                                   *)
(***************************************************************************)
\* Mutant of getNextRow: on exhaustion the Row's column count is not reset.
getNextRowKeepsSize(fields, rest) ==
    IF rest # <<>>
    THEN [origin |-> TRUE, data |-> Head(rest), fields |-> fields, fieldIter |-> 0]
    ELSE [origin |-> FALSE, data |-> <<>>, fields |-> fields, fieldIter |-> 0]

\* Result::getNextRow on the rows not yet fetched: the Row it binds.
getNextRow(fields, rest) ==
    IF rest # <<>>
    THEN [origin |-> TRUE, data |-> Head(rest), fields |-> fields, fieldIter |-> 0]
    ELSE NewRow

\* Mutant of emplace: the last row with a key wins (operator[] assignment).
emplaceOverwrite(values, key, value) ==
    {p \in values : p[1] # key} \cup {<<key, value>>}

\* std::map::emplace: an existing key keeps its value.
emplace(values, key, value) ==
    IF \E p \in values : p[1] = key THEN values ELSE values \cup {<<key, value>>}

\* MetaReader::MetaReader(Result &): the map, a set of <<key, value>>.
RECURSIVE MetaReader(_, _, _)
MetaReader(fields, rest, values) ==
    LET row == getNextRow(fields, rest) IN
    IF ~(row.fields > 0) THEN [err |-> NoError, values |-> values]
    ELSE LET k == ReadString(row, "")
             v == ReadString(k.row, "")
         IN  IF k.err # NoError THEN [err |-> k.err, values |-> values]
             ELSE IF v.err # NoError THEN [err |-> v.err, values |-> values]
             ELSE MetaReader(fields, Tail(rest),
                             IF k.value # "" THEN emplace(values, k.value, v.value)
                             ELSE values)

\* MetaReader::getValue
getValue(values, variable) ==
    IF \E p \in values : p[1] = variable
    THEN (CHOOSE p \in values : p[1] = variable)[2]
    ELSE ""

\* Result::Result(MYSQL *con): mysql_store_result takes the result set under
\* the cursor off the handle; it returns null when there is none.
Result(d, c) ==
    IF d.current # <<>>
    THEN [err |-> NoError, d |-> [d EXCEPT !.current = <<>>],
          res |-> [con |-> c, set |-> d.current[1],
                   metaReader |-> FALSE, values |-> {}]]
    ELSE [err |-> Exception("mysql_store_result error"), d |-> d, res |-> <<>>]

\* Mutant of addMeta: the map is read from the Result's own rows, not from
\* the result set that followed it.
addMetaOfOwnRows(res, meta) ==
    LET m == MetaReader(res.set.fields, res.set.rows, {}) IN
    IF m.err # NoError THEN [err |-> m.err, res |-> res]
    ELSE [err |-> NoError,
          res |-> [res EXCEPT !.metaReader = TRUE, !.values = m.values]]

\* Result::addMeta: nextResult never hands it a null pointer.
addMeta(res, meta) ==
    LET m == MetaReader(meta.set.fields, meta.set.rows, {}) IN
    IF m.err # NoError THEN [err |-> m.err, res |-> res]
    ELSE [err |-> NoError,
          res |-> [res EXCEPT !.metaReader = TRUE, !.values = m.values]]

\* Mutant of getMeta: the null check of metaReader is missing.
getMetaUnchecked(res, variable) ==
    [err |-> NoError, value |-> getValue(res.values, variable)]

\* Result::getMeta
getMeta(res, variable) ==
    IF ~res.metaReader
    THEN [err |-> Exception("No SHOW META result."), value |-> ""]
    ELSE [err |-> NoError, value |-> getValue(res.values, variable)]

(***************************************************************************)
(* Retrieval of the reply stream                                           *)
(***************************************************************************)
mysql_more_results(d) == d.more # <<>>

\* mysql_next_result moves the cursor to the next result set of the reply.
mysql_next_result(d) == [d EXCEPT !.current = <<Head(d.more)>>, !.more = Tail(d.more)]

\* Mutant of nextResult: the first retrieval too reports "No result
\* returned" when the handle has no result set to give.
nextResultChecksFirst(d, c) ==
    IF d.firstToRetrieve /\ d.current # <<>>
    THEN Result([d EXCEPT !.firstToRetrieve = FALSE], c)
    ELSE IF ~d.firstToRetrieve /\ mysql_more_results(d)
    THEN Result(mysql_next_result(d), c)
    ELSE [err |-> Exception("No result returned"), res |-> <<>>,
          d |-> [d EXCEPT !.firstToRetrieve = FALSE]]

\* Query::PrivateData::nextResult: the Connection afterwards and the Result.
nextResult(d, c) ==
    IF d.firstToRetrieve
    THEN Result([d EXCEPT !.firstToRetrieve = FALSE], c)
    ELSE IF mysql_more_results(d)
    THEN Result(mysql_next_result(d), c)
    ELSE [err |-> Exception("No result returned"), res |-> <<>>, d |-> d]

\* Response::fill from entry i on; acc holds the Results pushed so far.
RECURSIVE fillFrom(_, _, _, _)
fillFrom(d, c, i, acc) ==
    IF i > Len(d.queries) THEN [err |-> NoError, d |-> d, results |-> acc]
    ELSE LET r1 == nextResult(d, c) IN
         IF r1.err # NoError THEN [err |-> r1.err, d |-> r1.d, results |-> acc]
         ELSE IF d.queries[i].meta
         THEN LET r2 == nextResult(r1.d, c) IN
              IF r2.err # NoError
              THEN [err |-> r2.err, d |-> r2.d, results |-> acc]
              ELSE LET m == addMeta(r1.res, r2.res) IN
                   IF m.err # NoError
                   THEN [err |-> m.err, d |-> r2.d, results |-> acc]
                   ELSE fillFrom(r2.d, c, i + 1, Append(acc, m.res))
         ELSE fillFrom(r1.d, c, i + 1, Append(acc, r1.res))

\* Mutant of fill: every result set of the reply is pushed as a Result of
\* its own, the diagnostics result sets included.
fillEveryResultSet(d, c, acc) ==
    LET payload == getQueryString(d.queries)
        each == [i \in 1..Len(payload) |-> [text |-> payload[i], meta |-> FALSE]]
        f == fillFrom([d EXCEPT !.queries = each], c, 1, acc)
    IN  [err |-> f.err, d |-> [f.d EXCEPT !.queries = d.queries], results |-> f.results]

\* Response::fill(Query &)
fill(d, c, acc) == fillFrom(d, c, 1, acc)

\* Response::Response(AsyncQuery &) from the i-th Connection of the round on.
RECURSIVE ResponseFrom(_, _, _, _)
ResponseFrom(D, qs, i, acc) ==
    IF i > Len(qs) THEN [err |-> NoError, data |-> D, results |-> acc]
    ELSE LET f == fill(D[qs[i]], qs[i], acc)
             D2 == [D EXCEPT ![qs[i]] = f.d]
         IN  IF f.err # NoError THEN [err |-> f.err, data |-> D2, results |-> f.results]
             ELSE ResponseFrom(D2, qs, i + 1, f.results)

\* Mutant of Response(AsyncQuery &): the Connections of the round are
\* demultiplexed last to first.
ResponseAsyncReversed(D, qs) ==
    ResponseFrom(D, [i \in 1..Len(qs) |-> qs[Len(qs) + 1 - i]], 1, <<>>)

\* Response::Response(AsyncQuery &)
ResponseAsync(D, qs) == ResponseFrom(D, qs, 1, <<>>)

\* Response::Response(Query &)
ResponseSync(d, c) == fill(d, c, <<>>)

\* The null pointer Response::next returns for "no Result".
NoResult == [con |-> 0]

\* Mutant of next: the Result pushed last is returned first.
nextNewest(results) ==
    IF results # <<>>
    THEN [res |-> results[Len(results)], results |-> SubSeq(results, 1, Len(results) - 1)]
    ELSE [res |-> NoResult, results |-> results]

\* Response::next: the value returned and the queue afterwards.
next(results) ==
    IF results # <<>>
    THEN [res |-> Head(results), results |-> Tail(results)]
    ELSE [res |-> NoResult, results |-> results]

(***************************************************************************)
(* Connection: connect and the synchronous execute                         *)
(***************************************************************************)
\* One transport call as the log keeps it.
Call(fn, c, ret, errno) == [fn |-> fn, con |-> c, ret |-> ret, errno |-> errno]

\* Mutant of connect: a failed connect marks the Connection disconnected.
connectFailureDisconnects(d, status) ==
    IF ~status THEN [err |-> Exception("mysql_error"), d |-> [d EXCEPT !.connected = FALSE]]
    ELSE [err |-> NoError, d |-> [d EXCEPT !.connected = TRUE]]

\* Query::PrivateData::connect; status is what mysql_real_connect returned
\* (TRUE for the handle, FALSE for a null pointer).
connect(d, status) ==
    IF ~status THEN [err |-> Exception("mysql_error"), d |-> d]
    ELSE [err |-> NoError, d |-> [d EXCEPT !.connected = TRUE]]

\* What the transport does in one dispatch: the call that fails (0 for
\* none) with its return value and the error number the handle then
\* reports, and the Connection of the round whose reply ends early (0 for
\* none) and after how many result sets.
NoTransport ==
    [sendFail |-> 0, waitFail |-> 0, status |-> 0, errno |-> 0, cutAt |-> 0, cut |-> 0]
Failure(sendFail, waitFail, status, errno) ==
    [NoTransport EXCEPT !.sendFail = sendFail, !.waitFail = waitFail,
                        !.status = status, !.errno = errno]
Short(cutAt, cut) == [NoTransport EXCEPT !.cutAt = cutAt, !.cut = cut]

\* The transport in one synchronous execute of batch qs.
SyncInputs(qs) ==
    { NoTransport }
    \cup
    { Short(1, k) : k \in 0..(Len(getQueryString(qs)) - 1) }
    \cup
    { Failure(1, 0, r, e) : r \in MysqlFailureReturns, e \in MysqlErrnos }

\* The reply the i-th Connection of a dispatch reads.
RoundReply(d, i, io) ==
    LET full == ServerReply(getQueryString(d.queries)) IN
    IF io.cutAt = i THEN Truncate(full, io.cut) ELSE full

\* The handle after it read a reply.
Received(d, reply) ==
    IF reply = <<>> THEN [d EXCEPT !.current = <<>>, !.more = <<>>]
    ELSE [d EXCEPT !.current = <<Head(reply)>>, !.more = Tail(reply)]

\* The handle after a call on it failed: it holds no reply.
Failed(d) == [d EXCEPT !.current = <<>>, !.more = <<>>]

\* Query::PrivateData::execute
execute(d, io) ==
    LET status == io.status IN
    IF status # 0
    THEN IF status = CR_SERVER_GONE_ERROR \/ status = CR_SERVER_LOST
         THEN [err |-> TimeoutException("mysql_error"), d |-> Failed(d)]
         ELSE [err |-> Exception("mysql_error"), d |-> Failed(d)]
    ELSE [err |-> NoError, d |-> Received(d, RoundReply(d, 1, io))]

NoResponse == [valid |-> FALSE, results |-> <<>>]
ResponseOf(results) == [valid |-> TRUE, results |-> results]

\* Mutant of Query::execute(): the batch is cleared on the normal return
\* only, not when execute() or the Response constructor raises.
QueryExecuteClearOnReturn(d, c, io) ==
    LET e == execute(d, io)
        sent == <<Call("mysql_query", c, io.status, io.errno)>>
    IN  IF e.err # NoError
        THEN [err |-> e.err, d |-> e.d, response |-> NoResponse, calls |-> sent]
        ELSE LET f == ResponseSync(e.d, c) IN
             [err |-> f.err, d |-> IF f.err = NoError THEN clear(f.d) ELSE f.d,
              response |-> IF f.err = NoError THEN ResponseOf(f.results)
                           ELSE NoResponse,
              calls |-> sent]

\* Query::execute() past the connection check: finalClear runs on every
\* exit.
QueryExecuteConnected(d, c, io) ==
    LET e == execute(d, io)
        sent == <<Call("mysql_query", c, io.status, io.errno)>>
    IN  IF e.err # NoError
        THEN [err |-> e.err, d |-> clear(e.d), response |-> NoResponse, calls |-> sent]
        ELSE LET f == ResponseSync(e.d, c) IN
             [err |-> f.err, d |-> clear(f.d),
              response |-> IF f.err = NoError THEN ResponseOf(f.results)
                           ELSE NoResponse,
              calls |-> sent]

\* Mutant of Query::execute(): the connection check is missing.
QueryExecuteUnchecked(d, c, io) == QueryExecuteConnected(d, c, io)

\* Mutant of Query::execute(): finalClear is armed before the connection
\* check, so the batch is cleared on that exit too.
QueryExecuteClearsAlways(d, c, io) ==
    IF ~isConnected(d)
    THEN [err |-> Exception("No connection established!"), d |-> clear(d),
          response |-> NoResponse, calls |-> <<>>]
    ELSE QueryExecuteConnected(d, c, io)

\* Query::execute()
QueryExecute(d, c, io) ==
    IF ~isConnected(d)
    THEN [err |-> Exception("No connection established!"), d |-> d,
          response |-> NoResponse, calls |-> <<>>]
    ELSE QueryExecuteConnected(d, c, io)

(***************************************************************************)
(* AsyncQuery                                                              *)
(***************************************************************************)
Range(seq) == {seq[i] : i \in 1..Len(seq)}

\* The Connections that exist: held by the caller, idle or active.
Live == owned \cup Range(connections) \cup Range(queries)

\* The Connection object a constructor call yields.
Fresh == CHOOSE c \in Conns \ Live : \A o \in Conns \ Live : c <= o

\* ~Query(): the Connections of cs are closed.
Destroy(D, cs) == [c \in Conns |-> IF c \in cs THEN NewPrivateData ELSE D[c]]

\* Query::PrivateData::asyncExecute; status is what mysql_send_query returned.
asyncExecute(d, status) ==
    LET d2 == [d EXCEPT !.firstToRetrieve = TRUE] IN
    IF status # 0
    THEN [err |-> Exception("mysql_send_query failed"), d |-> d2]
    ELSE [err |-> NoError, d |-> d2]

\* Query::PrivateData::waitForAsyncResult; status is what
\* mysql_read_query_result returned, reply the stream it read.
waitForAsyncResult(d, status, reply) ==
    IF status # 0
    THEN [err |-> Exception("mysql_read_query_result failed"), d |-> Failed(d)]
    ELSE [err |-> NoError, d |-> Received(d, reply)]

\* The entries of a Connection's batch as the caller registered them.
Entries(d, c) ==
    [i \in 1..Len(d.queries) |->
        [con |-> c, text |-> d.queries[i].text, meta |-> d.queries[i].meta]]

\* The entries of a round, Connection by Connection.
RECURSIVE RoundEntries(_, _)
RoundEntries(D, qs) ==
    IF qs = <<>> THEN <<>>
    ELSE Entries(D[Head(qs)], Head(qs)) \o RoundEntries(D, Tail(qs))

\* The transport in one round of the Connections qs.
RoundInputs(D, qs) ==
    { NoTransport }
    \cup
    UNION { { Short(i, k) : k \in 0..(Len(getQueryString(D[qs[i]].queries)) - 1) } :
            i \in 1..Len(qs) }
    \cup
    { Failure(i, 0, 1, e) : i \in 1..Len(qs), e \in MysqlErrnos }
    \cup
    { Failure(0, i, 1, e) : i \in 1..Len(qs), e \in MysqlErrnos }

\* The first loop of launch(), from the i-th Connection on.
RECURSIVE SendFrom(_, _, _, _, _)
SendFrom(D, qs, i, io, log) ==
    IF i > Len(qs) THEN [err |-> NoError, data |-> D, calls |-> log]
    ELSE LET status == IF io.sendFail = i THEN io.status ELSE 0
             s == asyncExecute(D[qs[i]], status)
             log2 == Append(log, Call("mysql_send_query", qs[i], status,
                                      IF status = 0 THEN 0 ELSE io.errno))
             D2 == [D EXCEPT ![qs[i]] = s.d]
         IN  IF s.err # NoError THEN [err |-> s.err, data |-> D2, calls |-> log2]
             ELSE SendFrom(D2, qs, i + 1, io, log2)

\* The second loop of launch(), from the i-th Connection on.
RECURSIVE WaitFrom(_, _, _, _, _)
WaitFrom(D, qs, i, io, log) ==
    IF i > Len(qs) THEN [err |-> NoError, data |-> D, calls |-> log]
    ELSE LET status == IF io.waitFail = i THEN io.status ELSE 0
             w == waitForAsyncResult(D[qs[i]], status, RoundReply(D[qs[i]], i, io))
             log2 == Append(log, Call("mysql_read_query_result", qs[i], status,
                                      IF status = 0 THEN 0 ELSE io.errno))
             D2 == [D EXCEPT ![qs[i]] = w.d]
         IN  IF w.err # NoError THEN [err |-> w.err, data |-> D2, calls |-> log2]
             ELSE WaitFrom(D2, qs, i + 1, io, log2)

\* Mutant of the try block: each Connection is sent and waited for in turn.
RECURSIVE SendThenWaitFrom(_, _, _, _, _)
SendThenWaitFrom(D, qs, i, io, log) ==
    IF i > Len(qs) THEN [err |-> NoError, data |-> D, calls |-> log]
    ELSE LET s == SendFrom(D, <<qs[i]>>, 1,
                           [io EXCEPT !.sendFail = IF io.sendFail = i THEN 1 ELSE 0], log)
         IN  IF s.err # NoError THEN s
             ELSE LET status == IF io.waitFail = i THEN io.status ELSE 0
                      w == waitForAsyncResult(s.data[qs[i]], status,
                                              RoundReply(s.data[qs[i]], i, io))
                      log2 == Append(s.calls,
                                     Call("mysql_read_query_result", qs[i], status,
                                          IF status = 0 THEN 0 ELSE io.errno))
                      D2 == [s.data EXCEPT ![qs[i]] = w.d]
                  IN  IF w.err # NoError
                      THEN [err |-> w.err, data |-> D2, calls |-> log2]
                      ELSE SendThenWaitFrom(D2, qs, i + 1, io, log2)
SendAndWaitInTurn(D, qs, io) == SendThenWaitFrom(D, qs, 1, io, <<>>)

\* Mutant of the try block: the waits are issued last Connection first.
SendAndWaitBackwards(D, qs, io) ==
    LET s == SendFrom(D, qs, 1, io, <<>>) IN
    IF s.err # NoError THEN s
    ELSE WaitFrom(s.data, [i \in 1..Len(qs) |-> qs[Len(qs) + 1 - i]], 1, io, s.calls)

\* The try block of launch(): every send, then every wait.
SendAndWait(D, qs, io) ==
    LET s == SendFrom(D, qs, 1, io, <<>>) IN
    IF s.err # NoError THEN s ELSE WaitFrom(s.data, qs, 1, io, s.calls)

\* finalCleanup of launch(): each Connection of the round is cleared and
\* pushed to the pool, the active set is emptied.
\* Mutant of finalCleanup: the Connections go back to the pool without
\* query->clear().
finalCleanupKeepsBatch(D, conns, qs) ==
    [data |-> D, connections |-> conns \o qs, queries |-> <<>>]

finalCleanup(D, conns, qs) ==
    [data |-> [c \in Conns |-> IF c \in Range(qs) THEN clear(D[c]) ELSE D[c]],
     connections |-> conns \o qs,
     queries |-> <<>>]

\* The catch block of launch(): queries.clear() closes the round's
\* Connections.
Abort(D, conns, qs) ==
    [data |-> Destroy(D, Range(qs)), connections |-> conns, queries |-> <<>>]

\* ~Query() of each Connection of cs, in order: ~PrivateData() closes the
\* handle.
Closes(cs) == [i \in 1..Len(cs) |-> Call("mysql_close", cs[i], 0, 0)]

\* Mutant of launch(): the idle Connections of the pool are kept, and the
\* round's Connections join them afterwards.
launchKeepsPool(D, conns, qs, io) ==
    LET sw == SendAndWait(D, qs, io)
    IN  IF sw.err # NoError
        THEN LET a == Abort(sw.data, conns, qs) IN
             [err |-> sw.err, data |-> a.data, connections |-> a.connections,
              queries |-> a.queries, response |-> NoResponse,
              calls |-> sw.calls \o Closes(qs)]
        ELSE LET r == ResponseAsync(sw.data, qs)
                 f == finalCleanup(r.data, conns, qs)
             IN  [err |-> r.err, data |-> f.data, connections |-> f.connections,
                  queries |-> f.queries,
                  response |-> IF r.err = NoError THEN ResponseOf(r.results)
                               ELSE NoResponse,
                  calls |-> sw.calls]

\* Mutant of launch(): a failure of the demultiplexing is swallowed and the
\* Results pushed so far are returned.
launchPartial(D, conns, qs, io) ==
    LET D0 == Destroy(D, Range(conns))
        sw == SendAndWait(D0, qs, io)
    IN  IF sw.err # NoError
        THEN LET a == Abort(sw.data, <<>>, qs) IN
             [err |-> sw.err, data |-> a.data, connections |-> a.connections,
              queries |-> a.queries, response |-> NoResponse,
              calls |-> Closes(conns) \o sw.calls \o Closes(qs)]
        ELSE LET r == ResponseAsync(sw.data, qs)
                 f == finalCleanup(r.data, <<>>, qs)
             IN  [err |-> r.err, data |-> f.data, connections |-> f.connections,
                  queries |-> f.queries, response |-> ResponseOf(r.results),
                  calls |-> Closes(conns) \o sw.calls]

\* AsyncQuery::launch()
launch(D, conns, qs, io) ==
    LET D0 == Destroy(D, Range(conns))
        sw == SendAndWait(D0, qs, io)
    IN  IF sw.err # NoError
        THEN LET a == Abort(sw.data, <<>>, qs) IN
             [err |-> sw.err, data |-> a.data, connections |-> a.connections,
              queries |-> a.queries, response |-> NoResponse,
              calls |-> Closes(conns) \o sw.calls \o Closes(qs)]
        ELSE LET r == ResponseAsync(sw.data, qs)
                 f == finalCleanup(r.data, <<>>, qs)
             IN  [err |-> r.err, data |-> f.data, connections |-> f.connections,
                  queries |-> f.queries,
                  response |-> IF r.err = NoError THEN ResponseOf(r.results)
                               ELSE NoResponse,
                  calls |-> Closes(conns) \o sw.calls]

\* Mutant of add(): the idle pool is not looked at while a Connection can
\* be constructed.
addAlwaysNew(D, conns, qs, query, meta, fresh, status) ==
    IF fresh = 0
    THEN [err |-> NoError,
          data |-> [D EXCEPT ![Head(conns)] = addQuery(@, query, meta)],
          connections |-> Tail(conns), queries |-> Append(qs, Head(conns)),
          created |-> {}, calls |-> <<>>]
    ELSE LET k == connect(NewPrivateData, status) IN
         IF k.err # NoError
         THEN [err |-> k.err, data |-> D, connections |-> conns, queries |-> qs,
               created |-> {fresh}, calls |-> <<>>]
         ELSE [err |-> NoError,
               data |-> [D EXCEPT ![fresh] = addQuery(k.d, query, meta)],
               connections |-> conns, queries |-> Append(qs, fresh),
               created |-> {fresh}, calls |-> <<>>]

\* Mutant of add(): the statement is appended to the batch of the last
\* Connection of the active set when there is one.
addSharesConnection(D, conns, qs, query, meta, fresh, status) ==
    IF qs # <<>>
    THEN [err |-> NoError,
          data |-> [D EXCEPT ![qs[Len(qs)]] = addQuery(@, query, meta)],
          connections |-> conns, queries |-> qs, created |-> {}, calls |-> <<>>]
    ELSE IF conns # <<>>
    THEN [err |-> NoError,
          data |-> [D EXCEPT ![Head(conns)] = addQuery(@, query, meta)],
          connections |-> Tail(conns), queries |-> Append(qs, Head(conns)),
          created |-> {}, calls |-> <<>>]
    ELSE LET k == connect(NewPrivateData, status)
             tried == <<Call("mysql_real_connect", fresh, IF status THEN 0 ELSE 1, 0)>>
         IN  IF k.err # NoError
             THEN [err |-> k.err, data |-> D, connections |-> conns, queries |-> qs,
                   created |-> {fresh}, calls |-> tried]
             ELSE [err |-> NoError,
                   data |-> [D EXCEPT ![fresh] = addQuery(k.d, query, meta)],
                   connections |-> conns, queries |-> Append(qs, fresh),
                   created |-> {fresh}, calls |-> tried]

\* Mutant of add(): the new Connection takes the statement and joins the
\* active set before it is connected, and stays there when connect fails.
addRegistersBeforeConnect(D, conns, qs, query, meta, fresh, status) ==
    IF conns # <<>>
    THEN LET worker == Head(conns) IN
         [err |-> NoError,
          data |-> [D EXCEPT ![worker] = addQuery(@, query, meta)],
          connections |-> Tail(conns), queries |-> Append(qs, worker),
          created |-> {}, calls |-> <<>>]
    ELSE LET k == connect(NewPrivateData, status)
             tried == <<Call("mysql_real_connect", fresh, IF status THEN 0 ELSE 1, 0)>>
         IN  [err |-> k.err,
              data |-> [D EXCEPT ![fresh] = addQuery(k.d, query, meta)],
              connections |-> conns, queries |-> Append(qs, fresh),
              created |-> {fresh}, calls |-> tried]

\* AsyncQuery::add(const char *, bool); fresh is the Connection a
\* constructor call would yield (0: the bound on Connections is reached),
\* status what its connect returns.
add(D, conns, qs, query, meta, fresh, status) ==
    IF conns # <<>>
    THEN LET worker == Head(conns) IN
         [err |-> NoError,
          data |-> [D EXCEPT ![worker] = addQuery(@, query, meta)],
          connections |-> Tail(conns), queries |-> Append(qs, worker),
          created |-> {}, calls |-> <<>>]
    ELSE LET k == connect(NewPrivateData, status)
             tried == <<Call("mysql_real_connect", fresh, IF status THEN 0 ELSE 1, 0)>>
         IN  IF k.err # NoError
             THEN [err |-> k.err, data |-> D, connections |-> conns, queries |-> qs,
                   created |-> {fresh}, calls |-> tried]
             ELSE [err |-> NoError,
                   data |-> [D EXCEPT ![fresh] = addQuery(k.d, query, meta)],
                   connections |-> conns, queries |-> Append(qs, fresh),
                   created |-> {fresh}, calls |-> tried]

\* Mutant of add(Query &&): the Connection joins the active set whether or
\* not it carries statements.
addMovedAlwaysActive(D, conns, qs, c, status) ==
    LET k == IF ~isConnected(D[c]) THEN connect(D[c], status)
             ELSE [err |-> NoError, d |-> D[c]]
        tried == IF ~isConnected(D[c])
                 THEN <<Call("mysql_real_connect", c, IF status THEN 0 ELSE 1, 0)>>
                 ELSE <<>>
    IN  IF k.err # NoError
        THEN [err |-> k.err, data |-> D, connections |-> conns, queries |-> qs,
              moved |-> FALSE, calls |-> tried]
        ELSE [err |-> NoError, data |-> [D EXCEPT ![c] = k.d],
              connections |-> conns, queries |-> Append(qs, c),
              moved |-> TRUE, calls |-> tried]

\* AsyncQuery::add(Query &&)
addMoved(D, conns, qs, c, status) ==
    LET k == IF ~isConnected(D[c]) THEN connect(D[c], status)
             ELSE [err |-> NoError, d |-> D[c]]
        tried == IF ~isConnected(D[c])
                 THEN <<Call("mysql_real_connect", c, IF status THEN 0 ELSE 1, 0)>>
                 ELSE <<>>
    IN  IF k.err # NoError
        THEN [err |-> k.err, data |-> D, connections |-> conns, queries |-> qs,
              moved |-> FALSE, calls |-> tried]
        ELSE IF empty(k.d)
        THEN [err |-> NoError, data |-> [D EXCEPT ![c] = k.d],
              connections |-> Append(conns, c), queries |-> qs,
              moved |-> TRUE, calls |-> tried]
        ELSE [err |-> NoError, data |-> [D EXCEPT ![c] = k.d],
              connections |-> conns, queries |-> Append(qs, c),
              moved |-> TRUE, calls |-> tried]

\* Mutant of AsyncQuery::clear(): the active set is not emptied after its
\* Connections were pushed to the pool.
asyncClearKeepsActive(D, conns, qs) ==
    [data |-> [c \in Conns |-> IF c \in Range(qs) THEN clear(D[c]) ELSE D[c]],
     connections |-> conns \o qs,
     queries |-> qs]

\* AsyncQuery::clear(): each Connection of the active set is cleared and
\* pushed to the pool; finalClear empties the active set.
asyncClear(D, conns, qs) ==
    [data |-> [c \in Conns |-> IF c \in Range(qs) THEN clear(D[c]) ELSE D[c]],
     connections |-> conns \o qs,
     queries |-> <<>>]

(***************************************************************************)
(* Reading a Result: its rows, its column index, the accessors of Row      *)
(***************************************************************************)
\* mysql_fetch_fields: the column names of a result set.  SHOW META answers
\* with the columns Variable_name and Value.
mysql_fetch_fields(set) ==
    IF set.stmt = ShowMeta THEN <<"Variable_name", "Value">>
    ELSE SubSeq(<<"id", "weight">>, 1, set.fields)
\* Names asked of Row::getValue.
FieldNames == {"id", "weight", "Value", "unknown"}

\* A Result in the caller's hands: its result set, its column index (built
\* on first use), the rows mysql_fetch_row has not returned yet and the
\* number of getNextRow calls made on it.
ResultOf(set) == [set |-> set, columnIndex |-> {}, rest |-> set.rows, calls |-> 0]
NoRead == ResultOf([stmt |-> "", at |-> 0, fields |-> 0, rows |-> <<>>])

\* ResultIndex::initialize: index[name] = i, a later column of the same
\* name wins.
initialize(names) ==
    { <<names[i], i - 1>> : i \in {j \in 1..Len(names) :
                                      \A k \in (j + 1)..Len(names) : names[k] # names[j]} }

\* ResultIndex::getFieldIndex
getFieldIndex(index, field) ==
    IF \E p \in index : p[1] = field
    THEN [err |-> NoError, idx |-> (CHOOSE p \in index : p[1] = field)[2]]
    ELSE [err |-> out_of_range("No such field in result set"), idx |-> 0]

\* Result::getColumnIndex: the Result afterwards and the index found.
getColumnIndex(result, fieldName) ==
    LET indexed == IF result.columnIndex = {}
                   THEN [result EXCEPT !.columnIndex =
                                           initialize(mysql_fetch_fields(result.set))]
                   ELSE result
        f == getFieldIndex(indexed.columnIndex, fieldName)
    IN  [err |-> f.err, result |-> indexed, idx |-> f.idx]

\* Mutant of operator[]: the bounds check is missing, and a read past the
\* row's columns finds a null pointer.
RowAtUnchecked(row, index) ==
    [err |-> NoError,
     value |-> IF index < row.fields THEN row.data[index + 1] ELSE NullPtr]

\* Row::operator[]
RowAt(row, index) ==
    LET e == checkBounds(row, index) IN
    IF e # NoError THEN [err |-> e, value |-> ""]
    ELSE [err |-> NoError, value |-> row.data[index + 1]]

\* Row::getValue<std::string>
RowGetValue(row, result, field) ==
    IF ~row.origin
    THEN [err |-> Exception("Row is probably not initialized!"),
          result |-> result, value |-> ""]
    ELSE LET i == getColumnIndex(result, field) IN
         IF i.err # NoError THEN [err |-> i.err, result |-> i.result, value |-> ""]
         ELSE LET a == RowAt(row, i.idx) IN
              [err |-> a.err, result |-> i.result,
               value |-> IF a.err # NoError THEN ""
                         ELSE convertResultString(a.value, "")]

(***************************************************************************)
(* Row::convertResult to the integer types.  A column's text is the        *)
(* sequence of its characters.  Integers wider than the checker's own are  *)
(* kept as little-endian sequences of 16-bit limbs: a long of 2 or of 4    *)
(* limbs, a uint32_t of 2, a uint64_t of 4.  An exact value (a             *)
(* text's numeral, or a machine integer read as a number) is a sign and a  *)
(* magnitude of MaxLimbs limbs.                                            *)
(***************************************************************************)
Base == 2^16

Zero(w) == [i \in 1..w |-> 0]
Pad(n) == n \o Zero(MaxLimbs - Len(n))
Low(n, w) == SubSeq(n, 1, w)
FitsIn(n, w) == \A i \in (w + 1)..Len(n) : n[i] = 0

\* n * m + a, limb by limb.
RECURSIVE MulAdd(_, _, _)
MulAdd(n, m, a) ==
    IF n = <<>> THEN <<>>
    ELSE LET t == Head(n) * m + a IN <<t % Base>> \o MulAdd(Tail(n), m, t \div Base)

RECURSIVE Increment(_)
Increment(n) ==
    IF n = <<>> THEN <<>>
    ELSE IF Head(n) = Base - 1 THEN <<0>> \o Increment(Tail(n))
    ELSE <<Head(n) + 1>> \o Tail(n)

\* Negation in the unsigned type of Len(n) limbs (two's complement).
Negate(n) == Increment([i \in 1..Len(n) |-> Base - 1 - n[i]])

\* a < b for magnitudes of the same number of limbs.
Less(a, b) ==
    \E i \in 1..Len(a) : a[i] < b[i] /\ \A j \in (i + 1)..Len(a) : a[j] = b[j]

\* ULONG_MAX, LONG_MAX and the magnitude of LONG_MIN for a type of w limbs.
MaxUnsigned(w) == [i \in 1..w |-> Base - 1]
MaxSigned(w) == [i \in 1..w |-> IF i = w THEN Base \div 2 - 1 ELSE Base - 1]
MinSignedMagnitude(w) == [i \in 1..w |-> IF i = w THEN Base \div 2 ELSE 0]

\* An exact value.
Exact(neg, mag) == [neg |-> neg /\ mag # Zero(Len(mag)), mag |-> mag]
\* The number an unsigned, a signed machine integer stands for.
UnsignedValue(n) == Exact(FALSE, Pad(n))
SignedValue(n) ==
    IF n[Len(n)] >= Base \div 2 THEN Exact(TRUE, Pad(Negate(n)))
    ELSE Exact(FALSE, Pad(n))

Digits == ("0" :> 0) @@ ("1" :> 1) @@ ("2" :> 2) @@ ("3" :> 3) @@ ("4" :> 4)
          @@ ("5" :> 5) @@ ("6" :> 6) @@ ("7" :> 7) @@ ("8" :> 8) @@ ("9" :> 9)

\* The leading decimal digits of text as a magnitude, acc the digits read.
RECURSIVE ReadDigits(_, _, _)
ReadDigits(text, acc, count) ==
    IF text # <<>> /\ Head(text) \in DOMAIN Digits
    THEN ReadDigits(Tail(text), MulAdd(acc, 10, Digits[Head(text)]), count + 1)
    ELSE [mag |-> acc, count |-> count]

RECURSIVE SkipSpace(_)
SkipSpace(text) ==
    IF text # <<>> /\ Head(text) = " " THEN SkipSpace(Tail(text)) ELSE text

\* The subject sequence strtol and its kin find in text: white space, an
\* optional sign, decimal digits.  count = 0: no conversion, end = data.
Numeral(text) ==
    LET t == SkipSpace(text)
        signed == t # <<>> /\ Head(t) \in {"+", "-"}
        d == ReadDigits(IF signed THEN Tail(t) ELSE t, Zero(MaxLimbs), 0)
    IN  [neg |-> signed /\ Head(t) = "-", mag |-> d.mag, count |-> d.count]

\* strtoul (w: the limbs of unsigned long) and strtoull (w = 4): no
\* conversion leaves end at data; a numeral too large yields ULONG_MAX; a
\* minus sign negates in the unsigned type.
strtoul(text, w) ==
    LET n == Numeral(text) IN
    IF n.count = 0 THEN [converted |-> FALSE, val |-> Zero(w)]
    ELSE IF ~FitsIn(n.mag, w) THEN [converted |-> TRUE, val |-> MaxUnsigned(w)]
    ELSE [converted |-> TRUE,
          val |-> IF n.neg THEN Negate(Low(n.mag, w)) ELSE Low(n.mag, w)]

\* strtol (w: the limbs of long) and strtoll (w = 4): a numeral out of
\* range yields LONG_MAX or LONG_MIN.
strtol(text, w) ==
    LET n == Numeral(text) IN
    IF n.count = 0 THEN [converted |-> FALSE, val |-> Zero(w)]
    ELSE IF ~n.neg
    THEN [converted |-> TRUE,
          val |-> IF ~FitsIn(n.mag, w) \/ Less(MaxSigned(w), Low(n.mag, w))
                  THEN MaxSigned(w) ELSE Low(n.mag, w)]
    ELSE [converted |-> TRUE,
          val |-> IF ~FitsIn(n.mag, w) \/ Less(MinSignedMagnitude(w), Low(n.mag, w))
                  THEN MinSignedMagnitude(w) ELSE Negate(Low(n.mag, w))]

\* The integer types convertResult is specialised for, their limbs and
\* the limbs of the build's long (32 bits, or 64 bits as on LP64).
IntegerTypes == {"uint32_t", "uint64_t", "int32_t", "int64_t"}
LimbsOf(type) == IF type \in {"uint32_t", "int32_t"} THEN 2 ELSE 4
IsSigned(type) == type \in {"int32_t", "int64_t"}
LongLimbs == {2, 4}

\* A column's data pointer in this section: NULL, or the text it points to.
NullColumn == [null |-> TRUE, text |-> <<>>]
Column(text) == [null |-> FALSE, text |-> text]

\* Row::convertResult<uint32_t>: strtoul's unsigned long is assigned to a
\* uint32_t, which keeps its low 32 bits.
convertResultUint32(d, defaultValue, long) ==
    IF d.null THEN defaultValue
    ELSE LET r == strtoul(d.text, long) IN
         IF r.converted THEN Low(r.val, 2) ELSE defaultValue

\* Row::convertResult<uint64_t>
convertResultUint64(d, defaultValue) ==
    IF d.null THEN defaultValue
    ELSE LET r == strtoul(d.text, 4) IN
         IF r.converted THEN r.val ELSE defaultValue

\* Row::convertResult<int32_t>: strtol's long is assigned to an int32_t,
\* which keeps its low 32 bits.
convertResultInt32(d, defaultValue, long) ==
    IF d.null THEN defaultValue
    ELSE LET r == strtol(d.text, long) IN
         IF r.converted THEN Low(r.val, 2) ELSE defaultValue

\* Row::convertResult<int64_t>
convertResultInt64(d, defaultValue) ==
    IF d.null THEN defaultValue
    ELSE LET r == strtol(d.text, 4) IN
         IF r.converted THEN r.val ELSE defaultValue

\* Row::convertResult<T> for an integer type T.
convertResult(type, d, defaultValue, long) ==
    CASE type = "uint32_t" -> convertResultUint32(d, defaultValue, long)
      [] type = "uint64_t" -> convertResultUint64(d, defaultValue)
      [] type = "int32_t" -> convertResultInt32(d, defaultValue, long)
      [] type = "int64_t" -> convertResultInt64(d, defaultValue)

\* The number a machine integer of the type stands for.
ValueOf(type, n) == IF IsSigned(type) THEN SignedValue(n) ELSE UnsignedValue(n)

(***************************************************************************)
(* The state machine: one action per operation of the library.             *)
(***************************************************************************)
Op(name, c) == [op |-> name, con |-> c]

InitLibrary ==
    /\ data = [c \in Conns |-> NewPrivateData]
    /\ owned = {}
    /\ connections = <<>>
    /\ queries = <<>>
    /\ response = NoResponse
    /\ returned = NoResult
    /\ delivered = <<>>
    /\ raised = NoError
    /\ lastOp = Op("init", 0)
    /\ created = {}
    /\ calls = <<>>
    /\ registered = <<>>
    /\ transport = NoTransport

\* No call of convertResult to an integer type was made.
NoConv == [type |-> "", data |-> NullColumn, defaultValue |-> <<>>, long |-> 0,
           value |-> <<>>, done |-> FALSE]

Init ==
    /\ InitLibrary
    /\ readResult = NoRead
    /\ readRow = NewRow
    /\ dest = ""
    /\ hasRow = FALSE
    /\ got = ""
    /\ conv = NoConv

\* The caller reads a Response as far as it wants and destroys it before
\* it calls the library again; Results own their rows, so nothing a later
\* call does reaches a Response.  The observations of a dispatch (registered,
\* transport) last as long as its Response.
Idle == ~response.valid

\* What an operation other than a dispatch leaves of the last dispatch.
NoDispatch ==
    /\ response' = NoResponse
    /\ returned' = NoResult
    /\ delivered' = <<>>
    /\ registered' = <<>>
    /\ transport' = NoTransport

\* Query::Query()
NewQuery ==
    /\ Idle
    /\ Conns \ Live # {}
    /\ Cardinality(owned) < MaxOwned
    /\ data' = [data EXCEPT ![Fresh] = NewPrivateData]
    /\ owned' = owned \cup {Fresh}
    /\ created' = {Fresh}
    /\ lastOp' = Op("Query", Fresh)
    /\ raised' = NoError
    /\ calls' = <<>>
    /\ NoDispatch
    /\ UNCHANGED <<connections, queries>>
    /\ UNCHANGED reading

\* Query::connect(host, port) / Query::connect(unixsocket)
QueryConnect(c) ==
    /\ Idle
    /\ c \in owned
    /\ \E status \in BOOLEAN :
         \E k \in {connect(data[c], status)} :
         /\ data' = [data EXCEPT ![c] = k.d]
         /\ raised' = k.err
         /\ calls' = <<Call("mysql_real_connect", c, IF status THEN 0 ELSE 1, 0)>>
    /\ lastOp' = Op("connect", c)
    /\ created' = {}
    /\ NoDispatch
    /\ UNCHANGED <<owned, connections, queries>>
    /\ UNCHANGED reading

\* Query::addQuery(query, meta)
QueryAddQuery(c) ==
    /\ Idle
    /\ c \in owned
    /\ Len(data[c].queries) < MaxBatch
    /\ \E query \in Stmts, meta \in BOOLEAN :
         data' = [data EXCEPT ![c] = addQuery(@, query, meta)]
    /\ lastOp' = Op("addQuery", c)
    /\ raised' = NoError
    /\ created' = {}
    /\ calls' = <<>>
    /\ NoDispatch
    /\ UNCHANGED <<owned, connections, queries>>
    /\ UNCHANGED reading

\* Query::clear()
QueryClear(c) ==
    /\ Idle
    /\ c \in owned
    /\ data' = [data EXCEPT ![c] = clear(@)]
    /\ lastOp' = Op("clear", c)
    /\ raised' = NoError
    /\ created' = {}
    /\ calls' = <<>>
    /\ NoDispatch
    /\ UNCHANGED <<owned, connections, queries>>
    /\ UNCHANGED reading

\* Query::execute()
QueryExecuteCall(c) ==
    /\ Idle
    /\ c \in owned
    /\ \E io \in SyncInputs(data[c].queries) :
         \E x \in {QueryExecute(data[c], c, io)} :
         /\ data' = [data EXCEPT ![c] = x.d]
         /\ raised' = x.err
         /\ response' = x.response
         /\ calls' = x.calls
         /\ transport' = IF x.calls = <<>> THEN NoTransport ELSE io
    /\ registered' = Entries(data[c], c)
    /\ returned' = NoResult
    /\ delivered' = <<>>
    /\ lastOp' = Op("execute", c)
    /\ created' = {}
    /\ UNCHANGED <<owned, connections, queries>>
    /\ UNCHANGED reading

\* AsyncQuery::add(query, meta)
AsyncAdd ==
    /\ Idle
    /\ connections = <<>> => Conns \ Live # {}
    /\ \E query \in Stmts, meta \in BOOLEAN, status \in BOOLEAN :
         \E x \in {add(data, connections, queries, query, meta,
                         IF Conns \ Live # {} THEN Fresh ELSE 0, status)} :
             /\ data' = x.data
             /\ connections' = x.connections
             /\ queries' = x.queries
             /\ raised' = x.err
             /\ created' = x.created
             /\ calls' = x.calls
    /\ lastOp' = Op("add", 0)
    /\ NoDispatch
    /\ UNCHANGED owned
    /\ UNCHANGED reading

\* AsyncQuery::add(Query &&)
AsyncAddQuery(c) ==
    /\ Idle
    /\ c \in owned
    /\ \E status \in BOOLEAN :
         \E x \in {addMoved(data, connections, queries, c, status)} :
         /\ data' = x.data
         /\ connections' = x.connections
         /\ queries' = x.queries
         /\ owned' = IF x.moved THEN owned \ {c} ELSE owned
         /\ raised' = x.err
         /\ calls' = x.calls
    /\ lastOp' = Op("addQueryObject", c)
    /\ created' = {}
    /\ NoDispatch
    /\ UNCHANGED reading

\* AsyncQuery::launch()
Launch ==
    /\ Idle
    /\ \E io \in RoundInputs(data, queries) :
         \E x \in {launch(data, connections, queries, io)} :
             /\ data' = x.data
             /\ connections' = x.connections
             /\ queries' = x.queries
             /\ raised' = x.err
             /\ response' = x.response
             /\ calls' = x.calls
             /\ transport' = io
    /\ registered' = RoundEntries(data, queries)
    /\ returned' = NoResult
    /\ delivered' = <<>>
    /\ lastOp' = Op("launch", 0)
    /\ created' = {}
    /\ UNCHANGED owned
    /\ UNCHANGED reading

\* AsyncQuery::clear()
AsyncClear ==
    /\ Idle
    /\ \E x \in {asyncClear(data, connections, queries)} :
         /\ data' = x.data
         /\ connections' = x.connections
         /\ queries' = x.queries
    /\ lastOp' = Op("asyncClear", 0)
    /\ raised' = NoError
    /\ created' = {}
    /\ calls' = <<>>
    /\ NoDispatch
    /\ UNCHANGED owned
    /\ UNCHANGED reading

\* Response::next()
ResponseNext ==
    /\ response.valid
    /\ \E x \in {next(response.results)} :
         /\ returned' = x.res
         /\ response' = [response EXCEPT !.results = x.results]
         /\ delivered' = IF x.res # NoResult THEN Append(delivered, x.res)
                         ELSE delivered
    /\ lastOp' = Op("next", 0)
    /\ raised' = NoError
    /\ created' = {}
    /\ calls' = <<>>
    /\ UNCHANGED <<data, owned, connections, queries, registered, transport>>
    /\ UNCHANGED reading

\* Response::~Response()
ResponseDestroy ==
    /\ response.valid
    /\ lastOp' = Op("~Response", 0)
    /\ raised' = NoError
    /\ created' = {}
    /\ calls' = <<>>
    /\ NoDispatch
    /\ UNCHANGED <<data, owned, connections, queries>>
    /\ UNCHANGED reading

Next ==
    \/ NewQuery
    \/ \E c \in Conns : QueryConnect(c)
    \/ \E c \in Conns : QueryAddQuery(c)
    \/ \E c \in Conns : QueryClear(c)
    \/ \E c \in Conns : QueryExecuteCall(c)
    \/ AsyncAdd
    \/ \E c \in Conns : AsyncAddQuery(c)
    \/ Launch
    \/ AsyncClear
    \/ ResponseNext
    \/ ResponseDestroy

Spec == Init /\ [][Next]_vars

(***************************************************************************)
(* The caller reads one Result: one action per operation of Result and Row.*)
(***************************************************************************)
libraryState == <<data, owned, connections, queries, response, returned, delivered,
                  created, calls, registered, transport>>

RowOp(name, arg) == [op |-> name, con |-> 0, arg |-> arg]

\* The result sets a Result is constructed from: those of the replies to
\* a flagged statement, the data result set and the diagnostics result set.
ReadSets ==
    UNION { Range(ServerReply(getQueryString(<<[text |-> st, meta |-> TRUE]>>))) :
            st \in Stmts }

\* The caller holds a Result and a Row it has just constructed.
RowInit ==
    /\ InitLibrary
    /\ readResult \in { ResultOf(set) : set \in ReadSets }
    /\ readRow = NewRow
    /\ dest \in {"", "prior"}
    /\ hasRow = FALSE
    /\ got = ""
    /\ conv = NoConv

\* Result::getNextRow(row)
GetNextRow ==
    /\ readResult.calls < Len(readResult.set.rows) + 1 + MaxCallsPastEnd
    /\ \E r \in {getNextRow(readResult.set.fields, readResult.rest)} :
         /\ readRow' = r
         /\ hasRow' = (r.fields > 0)
    /\ readResult' = [readResult EXCEPT !.rest = IF @ = <<>> THEN @ ELSE Tail(@),
                                        !.calls = @ + 1]
    /\ lastOp' = RowOp("getNextRow", 0)
    /\ raised' = NoError
    /\ UNCHANGED <<dest, got, conv>>
    /\ UNCHANGED libraryState

\* Row::operator[](index)
RowSubscript(index) ==
    /\ \E a \in {RowAt(readRow, index)} :
         /\ raised' = a.err
         /\ got' = IF a.err = NoError THEN a.value ELSE got
    /\ lastOp' = RowOp("operator[]", index)
    /\ UNCHANGED <<readResult, readRow, dest, hasRow, conv>>
    /\ UNCHANGED libraryState

\* Row::operator>>(std::string &)
RowRead ==
    /\ \E x \in {ReadString(readRow, dest)} :
         /\ raised' = x.err
         /\ readRow' = x.row
         /\ dest' = x.value
    /\ lastOp' = RowOp("operator>>", 0)
    /\ UNCHANGED <<readResult, hasRow, got, conv>>
    /\ UNCHANGED libraryState

\* Row::getValue<std::string>(field)
RowGetValueCall(field) ==
    /\ \E x \in {RowGetValue(readRow, readResult, field)} :
         /\ raised' = x.err
         /\ readResult' = x.result
         /\ got' = IF x.err = NoError THEN x.value ELSE got
    /\ lastOp' = RowOp("getValue", field)
    /\ UNCHANGED <<readRow, dest, hasRow, conv>>
    /\ UNCHANGED libraryState

RowNext ==
    \/ GetNextRow
    \/ \E index \in 0..MaxIndex : RowSubscript(index)
    \/ RowRead
    \/ \E field \in FieldNames : RowGetValueCall(field)

RowSpec == RowInit /\ [][RowNext]_vars

(***************************************************************************)
(* Decoding a column to an integer: a row's column holds one of the texts  *)
(* below or NULL, and the caller asks for it as one of the integer types.  *)
(***************************************************************************)
ColumnTexts ==
    {<<"2", "1", "9">>,
     <<"0">>,
     <<>>,
     <<"a", "b", "c">>,
     <<"-", "1">>,
     <<"4", "2", "9", "4", "9", "6", "7", "2", "9", "6">>,
     <<"4", "2", "9", "4", "9", "6", "7", "2", "9", "5">>,
     <<"1", "2", "a">>,
     <<" ", "7">>,
     <<"+", "5">>,
     <<"2", "1", "4", "7", "4", "8", "3", "6", "4", "8">>,
     <<"-", "2", "1", "4", "7", "4", "8", "3", "6", "4", "9">>,
     <<"-", "2", "1", "4", "7", "4", "8", "3", "6", "4", "8">>,
     <<"1", "8", "4", "4", "6", "7", "4", "4", "0", "7", "3", "7", "0", "9", "5", "5", "1", "6", "1", "6">>,
     <<"9", "2", "2", "3", "3", "7", "2", "0", "3", "6", "8", "5", "4", "7", "7", "5", "8", "0", "8">>,
     <<"-">>}

ColumnData == {Column(text) : text \in ColumnTexts} \cup {NullColumn}

\* The defaults a caller supplies, as machine integers of the type.
Defaults(type) == {Zero(LimbsOf(type)), <<7>> \o Zero(LimbsOf(type) - 1)}

ConvertInit ==
    /\ InitLibrary
    /\ readResult = NoRead
    /\ readRow = NewRow
    /\ dest = ""
    /\ hasRow = FALSE
    /\ got = ""
    /\ \E type \in IntegerTypes, d \in ColumnData, long \in LongLimbs :
         \E defaultValue \in Defaults(type) :
            conv = [type |-> type, data |-> d, defaultValue |-> defaultValue,
                    long |-> long, value |-> defaultValue, done |-> FALSE]

\* convertResult<T>(data, defaultValue), as operator>> and getValue call it.
ConvertResult ==
    /\ ~conv.done
    /\ conv' = [conv EXCEPT
                  !.value = convertResult(conv.type, conv.data, conv.defaultValue, conv.long),
                  !.done = TRUE]
    /\ UNCHANGED <<readResult, readRow, dest, hasRow, got, lastOp, raised>>
    /\ UNCHANGED libraryState

ConvertNext == ConvertResult

ConvertSpec == ConvertInit /\ [][ConvertNext]_vars

(***************************************************************************)
(* Properties.                                                             *)
(***************************************************************************)
\* The Results of the Response of the last dispatch: those next() has
\* returned, then those still queued.
AllResults == delivered \o response.results

\* The batch Connection c brought to the last dispatch.
RegisteredBatch(c) ==
    LET mine == SelectSeq(registered, LAMBDA e : e.con = c) IN
    [i \in 1..Len(mine) |-> [text |-> mine[i].text, meta |-> mine[i].meta]]

\* The place in its Connection's reply of the result set of the i-th
\* registered entry: one result set per earlier entry of that Connection
\* and one more per earlier flagged entry.
PlaceOf(i) ==
    1 + Cardinality({j \in 1..(i - 1) : registered[j].con = registered[i].con})
      + Cardinality({j \in 1..(i - 1) : /\ registered[j].con = registered[i].con
                                        /\ registered[j].meta})

\* C1: after a successful execute() or launch(), the Results next() returns,
\* followed by those still queued, are the results of the registered
\* entries one by one in registration order: same Connection, same
\* statement, and within a Connection increasing places of its reply; the
\* last value next() returned is the last delivered one.
C1_DeliveryOrder ==
    response.valid =>
        /\ Len(AllResults) = Len(registered)
        /\ \A i \in 1..Len(AllResults) :
              /\ AllResults[i].con = registered[i].con
              /\ AllResults[i].set.stmt = registered[i].text
              /\ AllResults[i].set.at = PlaceOf(i)
        /\ (lastOp.op = "next" /\ returned # NoResult)
              => returned = delivered[Len(delivered)]

\* Two Results of a round of two Connections were delivered.
C1_Witness ==
    /\ lastOp.op = "next"
    /\ Len(delivered) = 2
    /\ delivered[1].con # delivered[2].con
    /\ returned = delivered[2]

\* C2: right after a successful dispatch of N entries the Response holds
\* exactly N Results, none of them the result set of a diagnostics request,
\* and a Result carries a diagnostics map exactly when its entry was flagged.
C2_NoDiagnosticsResult ==
    (lastOp.op \in {"execute", "launch"} /\ raised = NoError) =>
        /\ response.valid
        /\ Len(response.results) = Len(registered)
        /\ \A i \in 1..Len(response.results) :
              /\ response.results[i].set.stmt # ShowMeta
              /\ response.results[i].metaReader = registered[i].meta

\* A successful round with a flagged and an unflagged entry.
C2_Witness ==
    /\ lastOp.op = "launch"
    /\ raised = NoError
    /\ \E i, j \in 1..Len(registered) : registered[i].meta /\ ~registered[j].meta

C4_RoundDropped ==
    (lastOp.op = "launch" /\ raised # NoError) =>
        \A i \in 1..Len(registered) : registered[i].con \notin Range(connections)

\* C4 holds for the failures of the send and wait phases.
C4_DroppedAfterSendOrWait ==
    (lastOp.op = "launch" /\ raised # NoError
        /\ (transport.sendFail # 0 \/ transport.waitFail # 0)) =>
        /\ connections = <<>>
        /\ queries = <<>>

\* C5: add(statement) takes the Connection at the head of the idle pool and
\* constructs none when the pool is not empty, constructs exactly one when
\* it is empty; a successful round puts exactly its Connections in the pool.
C5_PoolReuse ==
    [][ /\ (lastOp'.op = "add" /\ raised' = NoError) =>
             IF connections # <<>>
             THEN /\ created' = {}
                  /\ queries' = Append(queries, Head(connections))
                  /\ connections' = Tail(connections)
                  /\ Live' = Live
             ELSE /\ Cardinality(created') = 1
                  /\ created' \cap Live = {}
                  /\ Live' = Live \cup created'
                  /\ \E c \in created' : queries' = Append(queries, c)
                  /\ connections' = connections
        /\ (lastOp'.op = "launch" /\ raised' = NoError) =>
             /\ created' = {}
             /\ connections' = queries
             /\ queries' = <<>>
      ]_vars

\* An add took the idle Connection of the pool for a round that already had
\* a Connection, and constructed none.
C5_Witness ==
    /\ lastOp.op = "add"
    /\ raised = NoError
    /\ created = {}
    /\ Len(queries) = 2
    /\ connections = <<>>

\* C6: in the transport calls of a round no wait precedes a send, and a
\* wait is issued only after a send on every Connection of the round.
C6_SendBeforeWait ==
    lastOp.op = "launch" =>
        /\ \A i, j \in 1..Len(calls) :
              (calls[i].fn = "mysql_read_query_result" /\ calls[j].fn = "mysql_send_query")
                  => j < i
        /\ (\E i \in 1..Len(calls) : calls[i].fn = "mysql_read_query_result") =>
              \A k \in 1..Len(registered) :
                  \E j \in 1..Len(calls) :
                      /\ calls[j].fn = "mysql_send_query"
                      /\ calls[j].con = registered[k].con

\* A round of two Connections with both sends and both waits issued.
C6_Witness ==
    /\ lastOp.op = "launch"
    /\ Len(calls) = 4
    /\ calls[3].fn = "mysql_read_query_result"
    /\ calls[3].con # calls[4].con

\* C7: getMeta raises for every name on every Result whose entry was
\* registered without wants-diagnostics.
C7_NoMetaRaises ==
    response.valid =>
        \A i \in 1..Len(AllResults) :
            (i <= Len(registered) /\ ~registered[i].meta) =>
                \A name \in MetaKeys :
                    getMeta(AllResults[i], name).err = Exception("No SHOW META result.")

\* next() returned the Result of an unflagged entry that holds a row.
C7_Witness ==
    /\ lastOp.op = "next"
    /\ returned # NoResult
    /\ ~registered[Len(delivered)].meta
    /\ returned.set.rows # <<>>

\* The reply the daemon gave Connection c in the last dispatch.
ReplyOf(c) == ServerReply(getQueryString(RegisteredBatch(c)))

\* The value a diagnostics result set reports for a key: that of its first
\* row with the key (a NULL value reads as the empty text); nothing for the
\* empty key.
Reported(rows, key) ==
    LET hits == {i \in 1..Len(rows) : rows[i][1] = key} IN
    IF key = "" \/ key = NullPtr \/ hits = {} THEN ""
    ELSE LET first == CHOOSE i \in hits : \A j \in hits : i <= j IN
         IF rows[first][2] = NullPtr THEN "" ELSE rows[first][2]

\* C8: on every Result whose entry was flagged, getMeta returns for every
\* name, without raising, the value the diagnostics result set that
\* followed the Result in the reply reports for it; rows with an empty key
\* contribute nothing and an unknown name yields the empty text.
C8_MetaValues ==
    response.valid =>
        \A i \in 1..Len(AllResults) :
            (i <= Len(registered) /\ registered[i].meta) =>
                LET r == AllResults[i]
                    diag == ReplyOf(r.con)[r.set.at + 1]
                IN  /\ diag.stmt = ShowMeta
                    /\ \A name \in MetaKeys :
                          getMeta(r, name) =
                              [err |-> NoError, value |-> Reported(diag.rows, name)]
                    /\ \A p \in r.values : p[1] # ""

\* next() returned a flagged Result whose diagnostics held rows with an
\* empty and with a NULL key.
C8_Witness ==
    /\ lastOp.op = "next"
    /\ returned # NoResult
    /\ returned.metaReader
    /\ returned.set.stmt = "B; "
    /\ getMeta(returned, "total").value = "2"

\* C9: a synchronous execute whose transport call fails raises
\* TimeoutException exactly when the error number is server-gone or
\* connection-lost.
C9_TimeoutExactly ==
    (lastOp.op = "execute" /\ calls # <<>> /\ calls[1].ret # 0) =>
        (raised.type = "TimeoutException"
            <=> calls[1].errno \in {CR_SERVER_GONE_ERROR, CR_SERVER_LOST})

\* C10: execute() on a Connection that is not connected raises the
\* "No connection established!" error and issues no transport call.
C10_UnconnectedExecute ==
    (lastOp.op = "execute" /\ ~isConnected(data[lastOp.con])) =>
        /\ raised = Exception("No connection established!")
        /\ calls = <<>>
        /\ response = NoResponse

\* execute() was called on an unconnected Connection with a batch to send.
C10_Witness ==
    /\ lastOp.op = "execute"
    /\ ~isConnected(data[lastOp.con])
    /\ data[lastOp.con].queries # <<>>

\* C11: after execute() on a connected Connection, whether it returned or
\* raised, the Connection's batch is empty and its first-result-pending flag
\* is set.
C11_ExecuteClears ==
    (lastOp.op = "execute" /\ isConnected(data[lastOp.con])) =>
        /\ empty(data[lastOp.con])
        /\ data[lastOp.con].firstToRetrieve

\* execute() of a batch of two entries raised in the demultiplexing, after
\* nextResult had taken the first result set.
C11_Witness ==
    /\ lastOp.op = "execute"
    /\ isConnected(data[lastOp.con])
    /\ Len(registered) = 2
    /\ raised = Exception("No result returned")

\* C12: Query::clear() on a Connection (called by the caller, or by
\* AsyncQuery::clear() on every Connection of the active set) empties the
\* batch and sets the first-result-pending flag; the connected state and
\* the handle with the reply it holds stay as they were, and no other
\* Connection changes.
C12_ClearFrame ==
    [][ /\ lastOp'.op = "clear" =>
             /\ empty(data'[lastOp'.con])
             /\ data'[lastOp'.con].firstToRetrieve
             /\ \A c \in Conns :
                   /\ data'[c].connected = data[c].connected
                   /\ data'[c].current = data[c].current
                   /\ data'[c].more = data[c].more
                   /\ c # lastOp'.con => data'[c] = data[c]
        /\ lastOp'.op = "asyncClear" =>
             \A c \in Conns :
                   /\ c \in Range(queries) =>
                         /\ empty(data'[c])
                         /\ data'[c].firstToRetrieve
                   /\ data'[c].connected = data[c].connected
                   /\ data'[c].current = data[c].current
                   /\ data'[c].more = data[c].more
                   /\ c \notin Range(queries) => data'[c] = data[c]
      ]_vars

\* clear() was called on a connected Connection the caller holds.
C12_Witness ==
    /\ lastOp.op = "clear"
    /\ isConnected(data[lastOp.con])
    /\ empty(data[lastOp.con])
    /\ data[lastOp.con].firstToRetrieve

\* C13: next() returns the Result at the front of the queue and removes it;
\* on an empty queue it returns the null pointer, raises nothing and leaves
\* the Response as it is, so every later call does the same; when the queue
\* has run empty, next() has returned as many Results as the Response held.
C13_NextDrains ==
    [][ lastOp'.op = "next" =>
          /\ raised' = NoError
          /\ IF response.results # <<>>
             THEN /\ returned' = Head(response.results)
                  /\ returned' # NoResult
                  /\ response'.results = Tail(response.results)
                  /\ delivered' = Append(delivered, returned')
             ELSE /\ returned' = NoResult
                  /\ response' = response
                  /\ delivered' = delivered
          /\ response'.results = <<>> => Len(delivered') = Len(registered')
      ]_vars

\* next() returned the null pointer after it had returned both Results of
\* the Response.
C13_Witness ==
    /\ lastOp.op = "next"
    /\ returned = NoResult
    /\ response.valid
    /\ Len(delivered) = 2

\* The Connection whose reply ended early in the last dispatch.  After a
\* round that failed in the demultiplexing, finalCleanup has pushed the
\* round's Connections to the pool in the order of the round.
CutConn ==
    IF lastOp.op = "execute" THEN lastOp.con ELSE connections[transport.cutAt]

C15_GetNextRow ==
    lastOp.op = "getNextRow" =>
        LET k == readResult.calls
            rows == readResult.set.rows
        IN  /\ raised = NoError
            /\ hasRow <=> k <= Len(rows)
            /\ k <= Len(rows) =>
                  readRow = [origin |-> TRUE, data |-> rows[k],
                             fields |-> readResult.set.fields, fieldIter |-> 0]
            /\ k > Len(rows) =>
                  /\ readRow = NewRow
                  /\ readRow.fields = 0 /\ ~readRow.origin

\* The third getNextRow call on a Result of two rows returned false.
C15_Witness ==
    /\ lastOp.op = "getNextRow"
    /\ Len(readResult.set.rows) = 2
    /\ readResult.calls = 3
    /\ ~hasRow

\* The column names of the Result the caller reads.
Columns == Range(mysql_fetch_fields(readResult.set))

\* C16: Row[index] raises out_of_range exactly when index >= size(), so for
\* every index on a Row that is not bound, and returns the column's data
\* otherwise; getValue(name) on a Row bound to a Result raises out_of_range
\* exactly when name is not a column of that Result.
C16_OutOfRange ==
    /\ lastOp.op = "operator[]" =>
          /\ lastOp.arg >= readRow.fields
                => raised = out_of_range("Row column out of range")
          /\ lastOp.arg < readRow.fields
                => raised = NoError /\ got = readRow.data[lastOp.arg + 1]
          /\ ~readRow.origin => raised.type = "out_of_range"
    /\ (lastOp.op = "getValue" /\ readRow.origin) =>
          /\ lastOp.arg \notin Columns
                => raised = out_of_range("No such field in result set")
          /\ lastOp.arg \in Columns => raised = NoError

\* Row[size()] was asked of a Row that is bound to a row of two columns.
C16_Witness ==
    /\ lastOp.op = "operator[]"
    /\ readRow.origin
    /\ readRow.fields = 2
    /\ lastOp.arg = 2
    /\ raised.type = "out_of_range"

\* C17: operator>> with the read cursor below size() raises nothing, moves
\* the cursor by exactly one column and changes nothing else of the Row;
\* the destination keeps its value when the column read is NULL and takes
\* the column's text otherwise.  With the cursor at size() it raises
\* out_of_range and changes neither the destination nor the Row.
C17_ReadAndAdvance ==
    [][ lastOp'.op = "operator>>" =>
          IF readRow.fieldIter >= readRow.fields
          THEN /\ raised' = out_of_range("Row column out of range")
               /\ dest' = dest
               /\ readRow' = readRow
          ELSE /\ raised' = NoError
               /\ readRow' = [readRow EXCEPT !.fieldIter = readRow.fieldIter + 1]
               /\ dest' = IF readRow.data[readRow.fieldIter + 1] = NullPtr
                          THEN dest
                          ELSE readRow.data[readRow.fieldIter + 1]
      ]_vars

\* operator>> read a NULL column into a destination that held a text, and
\* the cursor moved on.
C17_Witness ==
    /\ lastOp.op = "operator>>"
    /\ raised = NoError
    /\ readRow.fieldIter = 2
    /\ readRow.data[2] = NullPtr
    /\ dest # ""

FlaggedIn(qs, n) == Cardinality({j \in 1..n : qs[j].meta})

\* C19: for the batch of every Connection, the payload has one statement
\* per entry plus one per flagged entry; the text of entry i stands at
\* place i + (number of flagged entries before i), the diagnostics request
\* stands right behind it exactly when the entry is flagged, and the
\* payload holds no other diagnostics request.  The batch is what it was
\* when the payload has been built: a successful dispatch demultiplexes one
\* Result per registered entry.
C19_Payload ==
    /\ \A c \in Conns :
          LET qs == data[c].queries
              payload == getQueryString(qs)
          IN  /\ Len(payload) = Len(qs) + FlaggedIn(qs, Len(qs))
              /\ \A i \in 1..Len(qs) :
                    LET at == i + FlaggedIn(qs, i - 1) IN
                    /\ payload[at] = qs[i].text
                    /\ qs[i].meta => payload[at + 1] = ShowMeta
              /\ Cardinality({k \in 1..Len(payload) : payload[k] = ShowMeta})
                    = FlaggedIn(qs, Len(qs))
    /\ (lastOp.op \in {"execute", "launch"} /\ raised = NoError) =>
          Len(response.results) = Len(registered)

\* A Connection carries a batch of a flagged entry followed by an unflagged
\* one: the diagnostics request stands between the two statements.
C19_Witness ==
    \E c \in Conns :
        /\ Len(data[c].queries) = 2
        /\ data[c].queries[1].meta
        /\ ~data[c].queries[2].meta
        /\ getQueryString(data[c].queries) = <<data[c].queries[1].text, ShowMeta,
                                               data[c].queries[2].text>>

\* C20: after a successful dispatch whose replies hold one result set per
\* transmitted statement, the Result of the i-th registered entry is the
\* result set at place i + (flagged entries before i) of its Connection's
\* reply; when the entry is flagged, the result set at the next place is
\* the answer to the diagnostics request and the Result's map is the one
\* read from it; every result set of every reply has been pulled, none is
\* left on a handle.
C20_Positional ==
    (lastOp.op \in {"execute", "launch"} /\ raised = NoError
        /\ transport = NoTransport) =>
        /\ Len(response.results) = Len(registered)
        /\ \A i \in 1..Len(registered) :
              LET reply == ReplyOf(registered[i].con)
                  r == response.results[i]
              IN  /\ r.set = reply[PlaceOf(i)]
                  /\ registered[i].meta =>
                        LET diag == reply[PlaceOf(i) + 1] IN
                        /\ diag.stmt = ShowMeta
                        /\ r.values = MetaReader(diag.fields, diag.rows, {}).values
                  /\ PlaceOf(i) + (IF registered[i].meta THEN 1 ELSE 0) <= Len(reply)
        /\ \A i \in 1..Len(registered) :
              /\ data[registered[i].con].current = <<>>
              /\ data[registered[i].con].more = <<>>
              /\ (\A j \in (i + 1)..Len(registered) :
                        registered[j].con # registered[i].con)
                    => PlaceOf(i) + (IF registered[i].meta THEN 1 ELSE 0)
                           = Len(ReplyOf(registered[i].con))

\* A successful dispatch of one Connection's batch of two entries, the
\* first of them flagged: the second Result is the third result set.
C20_Witness ==
    /\ lastOp.op \in {"execute", "launch"}
    /\ raised = NoError
    /\ Len(registered) = 2
    /\ registered[1].con = registered[2].con
    /\ registered[1].meta
    /\ response.results[2].set.at = 3

\* C21: launch() closes every Connection that is idle in the pool when it
\* is called, each exactly once and before it sends anything, whatever
\* becomes of the round; after a round that raised nothing the pool holds
\* the round's Connections in registration order and the active set is
\* empty.  An idle Connection supplied with add(Query &&) sits in the pool
\* until an add(statement) draws it, so the next launch() closes it.
C21_LaunchDiscardsPool ==
    [][ lastOp'.op = "launch" =>
          /\ Len(calls') >= Len(connections)
          /\ SubSeq(calls', 1, Len(connections)) = Closes(connections)
          /\ \A c \in Range(connections) :
                /\ data'[c] = NewPrivateData
                /\ c \notin Live'
                /\ Cardinality({i \in 1..Len(calls') :
                                   calls'[i] = Call("mysql_close", c, 0, 0)}) = 1
          /\ raised' = NoError =>
                /\ connections' = queries
                /\ queries' = <<>>
      ]_vars

\* A successful round closed an idle Connection of the pool first.
C21_Witness ==
    /\ lastOp.op = "launch"
    /\ raised = NoError
    /\ calls # <<>>
    /\ calls[1].fn = "mysql_close"
    /\ connections # <<>>
    /\ calls[1].con \notin Range(connections)

\* The Connections of the last dispatch in the order they were registered.
RoundConns ==
    LET firsts == {i \in 1..Len(registered) :
                      \A j \in 1..(i - 1) : registered[j].con # registered[i].con}
    IN  [k \in 1..Cardinality(firsts) |->
            registered[CHOOSE i \in firsts :
                          Cardinality({j \in firsts : j < i}) = k - 1].con]

\* The calls of one kind in the log of the last operation.
CallsOf(fn) == SelectSeq(calls, LAMBDA x : x.fn = fn)

\* C22: in a round the sends go to the Connections in registration order,
\* and so do the waits; when no call fails every Connection is sent to and
\* waited for once; when the i-th send fails, i sends and no wait have been
\* issued; when the i-th wait fails, every send and i waits have been
\* issued; after a failed send or wait the round only closes Connections.
C22_RoundOrder ==
    lastOp.op = "launch" =>
        LET sends == CallsOf("mysql_send_query")
            waits == CallsOf("mysql_read_query_result")
        IN  /\ Len(sends) <= Len(RoundConns)
            /\ Len(waits) <= Len(RoundConns)
            /\ \A i \in 1..Len(sends) : sends[i].con = RoundConns[i]
            /\ \A i \in 1..Len(waits) : waits[i].con = RoundConns[i]
            /\ Len(sends) = IF transport.sendFail # 0 THEN transport.sendFail
                            ELSE Len(RoundConns)
            /\ Len(waits) = IF transport.sendFail # 0 THEN 0
                            ELSE IF transport.waitFail # 0 THEN transport.waitFail
                            ELSE Len(RoundConns)
            /\ \A i \in 1..Len(calls) :
                  (calls[i].fn # "mysql_close" /\ calls[i].ret # 0) =>
                      \A j \in (i + 1)..Len(calls) : calls[j].fn = "mysql_close"

\* The first wait of a round of two Connections failed: both sends and one
\* wait were issued.
C22_Witness ==
    /\ lastOp.op = "launch"
    /\ Len(RoundConns) = 2
    /\ transport.waitFail = 1
    /\ Len(CallsOf("mysql_send_query")) = 2
    /\ Len(CallsOf("mysql_read_query_result")) = 1

\* C23: an operation whose transport call failed because the server was
\* lost or a timeout expired (error number server-gone or connection-lost)
\* raises TimeoutException, be it a synchronous execute, a send or a wait.
C23_TimeoutEverywhere ==
    \A i \in 1..Len(calls) :
        (calls[i].ret # 0
            /\ calls[i].errno \in {CR_SERVER_GONE_ERROR, CR_SERVER_LOST}) =>
            raised.type = "TimeoutException"

\* The number of times Connection c was closed by the last operation.
ClosedTimes(c) ==
    Cardinality({i \in 1..Len(calls) : calls[i] = Call("mysql_close", c, 0, 0)})

\* Every Connection is in one place: held by the caller, idle in the pool
\* once, in the active set once, or destroyed.
OnePlace ==
    /\ Cardinality(Range(connections)) = Len(connections)
    /\ Cardinality(Range(queries)) = Len(queries)
    /\ Range(connections) \cap Range(queries) = {}
    /\ owned \cap (Range(connections) \cup Range(queries)) = {}
    /\ \A c \in Conns \ Live : data[c] = NewPrivateData

\* C24: after every operation every Connection is in one place; launch()
\* either pushes a Connection of the round to the pool, once and without
\* closing it, or closes it once and keeps it nowhere; clear() pushes each
\* Connection of the active set to the pool once and closes none.
C24_ExactlyOnce ==
    [][ /\ OnePlace'
        /\ lastOp'.op = "launch" =>
              \A c \in Range(queries) :
                  \/ /\ c \in Range(connections')
                     /\ ClosedTimes(c)' = 0
                  \/ /\ c \notin Live'
                     /\ ClosedTimes(c)' = 1
        /\ lastOp'.op = "asyncClear" =>
              /\ connections' = connections \o queries
              /\ queries' = <<>>
              /\ calls' = <<>>
      ]_vars

\* After a clear() the pool holds two Connections and the active set none.
C24_Witness ==
    /\ lastOp.op = "asyncClear"
    /\ Len(connections) = 2
    /\ queries = <<>>
    /\ OnePlace

\* C25: decoding a column to a 32-bit or 64-bit signed or unsigned integer
\* returns the caller's default when the column is NULL or has no leading
\* digits, and otherwise the number the text's numeral stands for, texts
\* out of the type's range (4294967296 or -1 as uint32_t) included.
C25_ParsedValue ==
    conv.done =>
        IF conv.data.null THEN conv.value = conv.defaultValue
        ELSE LET n == Numeral(conv.data.text) IN
             IF n.count = 0 THEN conv.value = conv.defaultValue
             ELSE ValueOf(conv.type, conv.value) = Exact(n.neg, n.mag)

\* What the code does hold to: NULL or no digits gives the default, and a
\* numeral within the range of both the type and the build's long gives its
\* number.
C25_InRange ==
    conv.done =>
        IF conv.data.null THEN conv.value = conv.defaultValue
        ELSE LET n == Numeral(conv.data.text)
                 w == LimbsOf(conv.type)
                 inType == IF IsSigned(conv.type)
                           THEN /\ FitsIn(n.mag, w)
                                /\ IF n.neg THEN ~Less(MinSignedMagnitude(w), Low(n.mag, w))
                                    ELSE ~Less(MaxSigned(w), Low(n.mag, w))
                           ELSE FitsIn(n.mag, w) /\ ~Exact(n.neg, n.mag).neg
             IN  IF n.count = 0 THEN conv.value = conv.defaultValue
                 ELSE inType => ValueOf(conv.type, conv.value) = Exact(n.neg, n.mag)

\* C26: every Connection of the idle pool has an empty batch, its
\* first-result-pending flag set and is connected; every Connection of the
\* active set is connected and carries at least one entry.
C26_PoolAndActive ==
    /\ \A i \in 1..Len(connections) :
          /\ empty(data[connections[i]])
          /\ data[connections[i]].firstToRetrieve
          /\ isConnected(data[connections[i]])
    /\ \A i \in 1..Len(queries) :
          /\ isConnected(data[queries[i]])
          /\ ~empty(data[queries[i]])

\* After an add(Query &&) both the pool and the active set hold a
\* Connection.
C26_Witness ==
    /\ lastOp.op = "addQueryObject"
    /\ raised = NoError
    /\ connections # <<>>
    /\ queries # <<>>

\* C27: no Connection of the idle pool has result sets still unread on its
\* transport: a Connection returned to the pool has had every result set
\* of the reply it waited for pulled.
C27_PoolDrained ==
    \A i \in 1..Len(connections) : ~mysql_more_results(data[connections[i]])

\* The Connections a step dispatched a payload on: mysql_query or
\* mysql_send_query was called on them.
Dispatched(log) ==
    {c \in Conns : \E i \in 1..Len(log) :
        /\ log[i].con = c
        /\ log[i].fn \in {"mysql_query", "mysql_send_query"}}

\* C28: whenever a payload is dispatched on a Connection, by execute() or
\* by a send of launch(), its first-result-pending flag is set: the flag is
\* set when execute() starts, the first Result retrieved from a Connection
\* with entries is the first result set of the reply, and the flag is set
\* again when the operation has returned, whether it failed or not.
C28_FlagAtDispatch ==
    [][\A c \in Dispatched(calls') :
          /\ lastOp'.op = "execute" => data[c].firstToRetrieve
          /\ raised' = NoError =>
                /\ (\E i \in 1..Len(registered') : registered'[i].con = c)
                      => \E i \in 1..Len(response'.results) :
                            response'.results[i].con = c
                /\ \A i \in 1..Len(response'.results) :
                      (/\ response'.results[i].con = c
                       /\ \A j \in 1..(i - 1) : response'.results[j].con # c)
                      => response'.results[i].set.at = 1
          /\ data'[c].firstToRetrieve]_vars

\* An execute() of two entries returned: the first Result is the first
\* result set of the reply and the flag is set again.
C28_Witness ==
    /\ lastOp.op = "execute"
    /\ raised = NoError
    /\ Len(response.results) = 2
    /\ response.results[1].set.at = 1
    /\ data[lastOp.con].firstToRetrieve

\* C29: a Connection's connected state is monotonic: a Connection that is
\* connected stays so for as long as it lives, through failed executes,
\* sends and waits and through failed connects.
C29_ConnectedMonotonic ==
    [][\A c \in Live \cap Live' :
          isConnected(data[c]) => isConnected(data'[c])]_vars

\* An execute() on a connected Connection failed with the server lost or
\* gone, and the Connection still reports that it is connected.
C29_Witness ==
    /\ lastOp.op = "execute"
    /\ raised # NoError
    /\ calls # <<>>
    /\ calls[1].fn = "mysql_query"
    /\ calls[1].errno \in {CR_SERVER_GONE_ERROR, CR_SERVER_LOST}
    /\ isConnected(data[lastOp.con])

\* A connect on a connected Connection failed, and the Connection still
\* reports that it is connected.
C29_FailedReconnect ==
    /\ lastOp.op = "connect"
    /\ raised # NoError
    /\ isConnected(data[lastOp.con])

\* C30: an execute() that fails because the Connection is not connected
\* leaves the Connection's entries and its first-result-pending flag as
\* they were; every failure of execute() on a connected Connection leaves
\* the batch cleared.
C30_FailureFrame ==
    [][lastOp'.op = "execute" =>
          /\ ~isConnected(data[lastOp'.con]) =>
                /\ raised' = Exception("No connection established!")
                /\ data'[lastOp'.con].queries = data[lastOp'.con].queries
                /\ data'[lastOp'.con].firstToRetrieve = data[lastOp'.con].firstToRetrieve
          /\ (isConnected(data[lastOp'.con]) /\ raised' # NoError) =>
                /\ raised' # Exception("No connection established!")
                /\ empty(data'[lastOp'.con])
                /\ data'[lastOp'.con].firstToRetrieve]_vars

\* execute() failed on an unconnected Connection that still carries its two
\* entries.
C30_Witness ==
    /\ lastOp.op = "execute"
    /\ raised = Exception("No connection established!")
    /\ Len(data[lastOp.con].queries) = 2

\* execute() of a batch failed in mysql_query on a connected Connection,
\* whose batch is empty afterwards.
C30_ConnectedFailure ==
    /\ lastOp.op = "execute"
    /\ raised = Exception("mysql_error")
    /\ registered # <<>>
    /\ empty(data[lastOp.con])

\* C31: when connecting fails inside add(statement) or add(Query &&), the
\* error propagates and the pool and the active set hold the same
\* Connections as before, each with the entries it had; the caller keeps
\* the Query it passed and no Connection is left over.
C31_FailedAddFrame ==
    [][(lastOp'.op \in {"add", "addQueryObject"} /\ raised' # NoError) =>
          /\ raised' = Exception("mysql_error")
          /\ connections' = connections
          /\ queries' = queries
          /\ owned' = owned
          /\ \A c \in Conns : data'[c] = data[c]
          /\ response' = NoResponse]_vars

\* An add(statement) failed to connect its second Connection while the
\* active set holds the first.
C31_Witness ==
    /\ lastOp.op = "add"
    /\ raised = Exception("mysql_error")
    /\ Len(queries) = 1
    /\ calls # <<>>
    /\ calls[1].fn = "mysql_real_connect"
    /\ calls[1].ret # 0

\* An add(Query &&) failed to connect the Query, which carries a statement
\* and stays with the caller.
C31_FailedAddQueryObject ==
    /\ lastOp.op = "addQueryObject"
    /\ raised = Exception("mysql_error")
    /\ lastOp.con \in owned
    /\ ~empty(data[lastOp.con])

\* The places in a log of the sends of payloads.
Sends(log) == {i \in 1..Len(log) : log[i].fn = "mysql_send_query"}

\* C32: each add(statement) places its statement on a Connection of its
\* own: the call appends to the active set one Connection that was not in
\* it, carrying exactly that one entry, and leaves the others as they were;
\* launch() sends at most one payload to each Connection of the round and,
\* when no send fails, one to every Connection, so a round of n Connections
\* of one entry each registers n entries and sends n payloads.
C32_OwnConnection ==
    [][/\ (lastOp'.op = "add" /\ raised' = NoError) =>
             /\ Len(queries') = Len(queries) + 1
             /\ SubSeq(queries', 1, Len(queries)) = queries
             /\ queries'[Len(queries')] \notin Range(queries)
             /\ Len(data'[queries'[Len(queries')]].queries) = 1
             /\ \A c \in Range(queries) : data'[c] = data[c]
       /\ lastOp'.op = "launch" =>
             /\ \A i \in Sends(calls') : calls'[i].con \in Range(queries)
             /\ \A i, j \in Sends(calls') : calls'[i].con = calls'[j].con => i = j
             /\ transport'.sendFail = 0 => Cardinality(Sends(calls')) = Len(queries)
             /\ (\A c \in Range(queries) : Len(data[c].queries) = 1)
                   => Len(registered') = Len(queries)]_vars

\* A round of two Connections of one entry each was launched: two payloads
\* were sent and two Results came back.
C32_Witness ==
    /\ lastOp.op = "launch"
    /\ raised = NoError
    /\ Len(registered) = 2
    /\ Len(RoundConns) = 2
    /\ Cardinality(Sends(calls)) = 2
    /\ Len(response.results) = 2

\* The second add(statement) of a round put a second Connection, with one
\* entry, in the active set.
C32_SecondAdd ==
    /\ lastOp.op = "add"
    /\ raised = NoError
    /\ Len(queries) = 2
    /\ \A i \in 1..2 : Len(data[queries[i]].queries) = 1

====
